---------------------------- MODULE Spec2Model ----------------------------
(***************************************************************************)
(* Model of the Owon VDS1022 driver (src/src/driver/owon.ts) and of the    *)
(* connect handler that drives it (src/src/components/HelloWorld.vue).     *)
(*                                                                         *)
(* A session is one Owon object.  Every async method is cut at its awaits: *)
(* one action per transport write and one per transport read.  The USB     *)
(* device is shared by all sessions; it answers the requests written to it *)
(* in the order they were written, one response per request.               *)
(*                                                                         *)
(*   Spec         one session whose methods are called one after another,  *)
(*                in any order and with any arguments (the exported class  *)
(*                used by a sequential caller).                            *)
(*   SpecConnect  HelloWorld.connect invoked once per session, the         *)
(*                invocations suspended and resumed at their awaits.       *)
(*   SpecOneConnect  one invocation of HelloWorld.connect, run to its end. *)
(*   SpecCalls    the functions packCommand and gotData applied to inputs  *)
(*                of any length, the zero offset of configureChannel       *)
(*                computed from any two cells.                             *)
(***************************************************************************)
EXTENDS Integers, Sequences, FiniteSets, TLC

VARIABLES
  pc,                 \* per session: where the running method is suspended
  op,                 \* per session: the method that runs (or ran last)
  args,               \* per session: the arguments of that method
  step,               \* per session: index of the write/read pair in the method
  loc,                \* per session: the locals of uploadFpgaBitstream / sampleInfinitely
  conn,               \* per session: position of HelloWorld.connect, and the
                      \* methods that have returned to it, in order
  outEndpoint_,       \* Owon.outEndpoint_ is defined
  inEndpoint_,        \* Owon.inEndpoint_ is defined
  calibrationData_,   \* Owon.calibrationData_.data, the 60 cells of the ndarray
  firmwareVersion_,   \* Owon.firmwareVersion_, as character codes
  serialNumber_,      \* Owon.serialNumber_, as character codes
  opened,             \* USBDevice.opened
  pending,            \* requests written to the device and not yet answered (owners)
  log,                \* per session: transport events and callbacks of the running method
  flashLoaded,        \* per session: readFlash has filled calibrationData_
  readOwner,          \* per session: whose request the last response read answered
  call,               \* the last call of a function of the module made on its own
  edgeLevelSource     \* per session: the trigger source whose edge-level register
                      \* the last acknowledged level write of configureEdgeTrigger
                      \* set (-1: none)

ctlVars     == <<pc, op, args, step, loc, conn>>
sessionVars == <<outEndpoint_, inEndpoint_, calibrationData_, firmwareVersion_,
                 serialNumber_, flashLoaded, call, edgeLevelSource>>
linkVars    == <<opened, pending, log, readOwner>>
vars        == <<pc, op, args, step, loc, conn, outEndpoint_, inEndpoint_,
                 calibrationData_, firmwareVersion_, serialNumber_, opened,
                 pending, log, flashLoaded, readOwner, call, edgeLevelSource>>

-----------------------------------------------------------------------------
(* Bounds of the model *)

\* cycles of the acquisition loop (stands for the literal 5000 of owon.ts:631)
MaxCycles == 2
\* largest firmware image, in bytes
MaxImageLen == 70
\* largest |triggerLevel| passed to configureEdgeTrigger
MaxTriggerLevel == 200
\* longest payload handed to packCommand, in bytes
MaxPayloadLen == 257
\* longest sample frame handed to gotData, in bytes
MaxFrameLen == 5220

Sessions == {1, 2}

-----------------------------------------------------------------------------
(* Program constants *)

DEVICE_TYPE == 86                       \* 0x56
FLASH_HEADER == 43605                   \* 0xaa55
FLASH_VERSION == 2
CALIBRATION_INFO_COUNT == 3
CHANNEL_COUNT == 2
VOLTBASE_COUNT == 10
AFFIRMATIVE_RESPONSE == 83              \* 0x53
FPGA_ACCEPTING_UPLOAD_RESPONSE == 68    \* 0x44
CHUNK_SIZE == 64
FRAME_HEADER_SIZE == 4
SAMPLE_FRAME_LENGTH == 5211
SAMPLE_OFFSET == 111
SAMPLE_STRIDE == 4
SAMPLE_COUNT == 1275
SAMPLE_SCALE == 3096
GET_DEVICE_TYPE_ADDRESS == 16385        \* 0x4001
READ_FLASH_ADDRESS == 432               \* 0x01b0
FLASH_LENGTH == 2002

Address ==
  [ CH1 |-> 273, CH2 |-> 272,                               \* 0x111, 0x110
    CH1_VOLT_GAIN |-> 278, CH2_VOLT_GAIN |-> 276,           \* 0x116, 0x114
    CH1_ZERO_OFFSET |-> 266, CH2_ZERO_OFFSET |-> 264,       \* 0x10a, 0x108
    TIMEBASE |-> 82, PHASE_FINE |-> 24, TRIGGER |-> 36,     \* 0x52, 0x18, 0x24
    TRIGGER_D |-> 1,
    CH1_TRIGGER_HOLDOFF_ARG |-> 38, CH1_TRIGGER_HOLDOFF_INDEX |-> 39,
    CH1_TRIGGER_EDGE_LEVEL |-> 46, CH2_TRIGGER_EDGE_LEVEL |-> 48,   \* 0x2e, 0x30
    EXT_TRIGGER_EDGE_LEVEL |-> 268,                         \* 0x10c
    PRE_TRIGGER |-> 90, SUF_TRIGGER |-> 86, DEEP_MEMORY |-> 92,     \* 0x5a, 0x56, 0x5c
    CHANNEL_ON |-> 11, SYNC_OUTPUT |-> 6, SAMPLE |-> 9,
    EMPTY |-> 268,                                          \* 0x10c
    DATA_FINISHED |-> 122,                                  \* 0x7a
    GET_DATA |-> 4096,                                      \* 0x1000
    FPGA_UPLOAD |-> 16384 ]                                 \* 0x4000

Channel       == [CH1 |-> 0, CH2 |-> 1]
Coupling      == [AC |-> 0, DC |-> 1, GND |-> 2]
Voltage       == [MV5 |-> 0, MV10 |-> 1, MV20 |-> 2, MV50 |-> 3, MV100 |-> 4,
                  MV200 |-> 5, MV500 |-> 6, V1 |-> 7, V2 |-> 8, V5 |-> 9]
TriggerSource == [CH1 |-> 0, CH2 |-> 1, EXTERNAL |-> 2]
TriggerType   == [EDGE |-> 0, SLOPE |-> 1, VIDEO |-> 2, PULSE |-> 3]
TriggerMode   == [SINGLE |-> 0, ALTERNATE |-> 1]
TriggerSlope  == [RISING |-> 0, FALLING |-> 1]
CalibrationField == [GAIN |-> 0, AMPLITUDE |-> 1, COMPENSATION |-> 2]
Timebase      == {1, 2, 3, 6, 24, 48, 80, 96, 192, 384, 768, 1536, 3072}

TRIGGER_EDGE_LEVEL_ADDRESS(source) ==
  CASE source = TriggerSource.CH1 -> Address.CH1_TRIGGER_EDGE_LEVEL
    [] source = TriggerSource.CH2 -> Address.CH2_TRIGGER_EDGE_LEVEL
    [] source = TriggerSource.EXTERNAL -> Address.EXT_TRIGGER_EDGE_LEVEL

CHANNEL_ADDRESS(channel) ==
  IF channel = Channel.CH1 THEN Address.CH1 ELSE Address.CH2

VOLT_GAIN_ADDRESS(channel) ==
  IF channel = Channel.CH1 THEN Address.CH1_VOLT_GAIN ELSE Address.CH2_VOLT_GAIN

ZERO_OFFSET_ADDRESS(channel) ==
  IF channel = Channel.CH1 THEN Address.CH1_ZERO_OFFSET ELSE Address.CH2_ZERO_OFFSET

-----------------------------------------------------------------------------
(* Bytes, typed arrays and DataView stores *)

Min(a, b) == IF a < b THEN a ELSE b

Pow2(n) == 2 ^ n

\* DataView.setUint32(_, n, true): four bytes, little-endian (every n of the
\* model lies in 0 .. 2^31 - 1, so the reduction modulo 2^32 changes nothing)
U32LE(n) ==
  << n % 256, (n \div 256) % 256, (n \div 65536) % 256, (n \div 16777216) % 256 >>

\* DataView.setUint16(_, n, true): two bytes, little-endian, n taken modulo 2^16
U16LE(n) ==
  LET m == n % Pow2(16)
  IN  << m % 256, (m \div 256) % 256 >>

\* Uint8Array.from([x]): x modulo 2^8
ToUint8(x) == x % 256

\* Int8Array.from([x]): x wrapped into -128..127
ToInt8(x) == ((x + 128) % 256) - 128

\* the value read back from a byte as a signed 8-bit integer
AsInt8(b) == IF b >= 128 THEN b - 256 ELSE b

\* a | b for naturals below 2^16
RECURSIVE BitOrN(_, _, _)
BitOrN(a, b, n) ==
  IF n = 0 THEN 0
  ELSE (IF (a % 2 = 1) \/ (b % 2 = 1) THEN 1 ELSE 0)
       + 2 * BitOrN(a \div 2, b \div 2, n - 1)

\* a | b on 16 bits; the operands are evaluated once
BitOr(a, b) == CHOOSE r \in {BitOrN(x, y, 16) : x \in {a}, y \in {b}} : TRUE

\* a << n
Shl(a, n) == a * Pow2(n)

\* bit n of w
Bit(w, n) == (w \div Pow2(n)) % 2

\* packCommand(address, data): address(4, LE) ++ byteLength(1) ++ data
packCommand(address, data) ==
  U32LE(address) \o << Len(data) % 256 >> \o data

\* the fields of a packed command, as the device reads them
FrameAddress(bytes) ==
  bytes[1] + 256 * bytes[2] + 65536 * bytes[3] + 16777216 * bytes[4]
FramePayload(bytes) == SubSeq(bytes, 6, Len(bytes))

-----------------------------------------------------------------------------
(* The values the methods compute *)

\* calibrationData_ is ndarray(new Uint16Array(60), [2, 3, 10]): row-major cells
\* an array laid out field by field, as the dump is
NdIndex_fieldMajor(channelIndex, calibrationInfoIndex, voltbaseIndex) ==
  calibrationInfoIndex * (CHANNEL_COUNT * VOLTBASE_COUNT)
    + channelIndex * VOLTBASE_COUNT + voltbaseIndex

NdIndex(channelIndex, calibrationInfoIndex, voltbaseIndex) ==
  channelIndex * (CALIBRATION_INFO_COUNT * VOLTBASE_COUNT)
    + calibrationInfoIndex * VOLTBASE_COUNT + voltbaseIndex

CalibrationGet(data, channelIndex, calibrationInfoIndex, voltbaseIndex) ==
  data[NdIndex(channelIndex, calibrationInfoIndex, voltbaseIndex)]

\* new Uint16Array(60): all cells 0
EmptyCalibration == [k \in 0 .. (CHANNEL_COUNT * CALIBRATION_INFO_COUNT * VOLTBASE_COUNT - 1) |-> 0]

\* configureChannel: the channel bit field (owon.ts:421-428)
ChannelBitField(options) ==
  BitOr(BitOr(IF options.on THEN 128 ELSE 0, Shl(options.coupling, 5)), 2)

\* configureChannel: zeroOffset (owon.ts:466)
ZeroOffset(compensation, amplitude) == compensation - (amplitude \div 100)

\* configureChannel: the i-th of its three command frames
ConfigureChannelCommand(i, options, data) ==
  CASE i = 1 ->
         packCommand(CHANNEL_ADDRESS(options.channel),
                     << ToUint8(ChannelBitField(options)) >>)
    [] i = 2 ->
         packCommand(VOLT_GAIN_ADDRESS(options.channel),
                     U16LE(CalibrationGet(data, options.channel,
                                          CalibrationField.GAIN, options.voltage)))
    [] i = 3 ->
         packCommand(ZERO_OFFSET_ADDRESS(options.channel),
                     U16LE(ZeroOffset(
                       CalibrationGet(data, options.channel,
                                      CalibrationField.COMPENSATION, options.voltage),
                       CalibrationGet(data, options.channel,
                                      CalibrationField.AMPLITUDE, options.voltage))))

\* configureEdgeTrigger: the clamp limit of upperBound (owon.ts:511-512)
UPPER_BOUND_LIMIT == 128
\* configureEdgeTrigger: the clamp limit of lowerBound (owon.ts:516-517)
LOWER_BOUND_LIMIT == -128
\* configureEdgeTrigger: the distance of the two bounds (owon.ts:505-518)
EDGE_LEVEL_WIDTH == 10

\* configureEdgeTrigger: upperBound and lowerBound after the two clamps
EdgeLevelBounds(triggerLevel, slope) ==
  LET upper0 == IF slope = TriggerSlope.RISING
                  THEN triggerLevel ELSE triggerLevel + EDGE_LEVEL_WIDTH
      lower0 == IF slope = TriggerSlope.RISING
                  THEN triggerLevel - EDGE_LEVEL_WIDTH ELSE triggerLevel
      upper1 == IF upper0 > UPPER_BOUND_LIMIT THEN UPPER_BOUND_LIMIT ELSE upper0
      lower1 == IF upper0 > UPPER_BOUND_LIMIT
                  THEN UPPER_BOUND_LIMIT - EDGE_LEVEL_WIDTH ELSE lower0
      lower2 == IF lower1 < LOWER_BOUND_LIMIT THEN LOWER_BOUND_LIMIT ELSE lower1
      upper2 == IF lower1 < LOWER_BOUND_LIMIT
                  THEN LOWER_BOUND_LIMIT + EDGE_LEVEL_WIDTH ELSE upper1
  IN  [upperBound |-> upper2, lowerBound |-> lower2]

\* configureEdgeTrigger: Int8Array.from([upperBound, lowerBound]) copied into
\* the Uint8Array of the frame by packCommand
EdgeLevelPayload(triggerLevel, slope) ==
  LET b == EdgeLevelBounds(triggerLevel, slope)
  IN  << ToUint8(ToInt8(b.upperBound)), ToUint8(ToInt8(b.lowerBound)) >>

\* mutant of TriggerTypeBitField: SINGLE mode packs type and source the way
\* ALTERNATE mode does
TriggerTypeBitField_alternateLayout(mode, type, source, slope) ==
  LET modeBits ==
        BitOr(BitOr(Shl(type % 2, 13), Shl((type \div 2) % 2, 8)), Shl(source % 2, 14))
  IN  BitOr(BitOr(modeBits, Shl(slope % 2, 12)),
            IF mode = TriggerMode.SINGLE THEN 0 ELSE Shl(1, 15))

\* configureEdgeTrigger: triggerTypeBitField (owon.ts:530-552), sweep = 0
TriggerTypeBitField(mode, type, source, slope) ==
  LET sweep == 0
      modeBits ==
        IF mode = TriggerMode.SINGLE
          THEN BitOr(BitOr(Shl(type % 2, 8), Shl((type \div 2) % 2, 14)),
                     IF source = TriggerSource.EXTERNAL
                       THEN 1 ELSE Shl(source % 2, 13))
          ELSE BitOr(BitOr(BitOr(Shl(1, 15), Shl(type % 2, 13)),
                           Shl((type \div 2) % 2, 8)),
                     Shl(source % 2, 14))
      slopeBits == BitOr(modeBits, Shl(slope % 2, 12))
  IN  IF mode = TriggerMode.SINGLE
        THEN BitOr(BitOr(slopeBits, Shl(sweep % 2, 10)), Shl((sweep \div 2) % 2, 11))
        ELSE slopeBits

\* configureEdgeTrigger: the i-th of its two command frames
ConfigureEdgeTriggerCommand(i, options) ==
  IF i = 1
    THEN packCommand(TRIGGER_EDGE_LEVEL_ADDRESS(options.source),
                     EdgeLevelPayload(options.triggerLevel, options.slope))
    ELSE packCommand(Address.TRIGGER,
                     U16LE(TriggerTypeBitField(options.mode, options.type,
                                               options.source, options.slope)))

\* sampleInfinitely: the eight register writes before the loop (owon.ts:582-626)
ArmCommands ==
  << packCommand(Address.CH1_TRIGGER_HOLDOFF_ARG, << 0 >>),
     packCommand(Address.CH1_TRIGGER_HOLDOFF_INDEX, << 66 >>),
     packCommand(Address.DEEP_MEMORY, << 236, 19 >>),
     packCommand(Address.SYNC_OUTPUT, << 0 >>),
     packCommand(Address.SAMPLE, << 0 >>),
     packCommand(Address.PRE_TRIGGER, << 241, 9 >>),
     packCommand(Address.SUF_TRIGGER, << 251, 9, 0, 0 >>),
     packCommand(Address.EMPTY, << 1 >>) >>

\* sampleInfinitely: the two acknowledged writes of a cycle (owon.ts:632-640)
CycleCommands ==
  << packCommand(Address.TRIGGER_D, << 0 >>),
     packCommand(Address.DATA_FINISHED, << 0 >>) >>

\* sampleInfinitely: the data request of a cycle (owon.ts:643)
SampleRequestCommand == packCommand(4096, << 5, 4 >>)

\* getData: its data request (owon.ts:571-573)
GetDataCommand == packCommand(Address.GET_DATA, << 5, 5 >>)

\* mutant of ResponseMatches: every status is compared with the affirmative code
ResponseMatches_affirmative(actual, expected) == actual = AFFIRMATIVE_RESPONSE

\* expectResponse: the comparison of the status byte (owon.ts:351)
ResponseMatches(actual, expected) == actual = expected

\* mutant of McuDataSize: the frame header is not subtracted
McuDataSize_noHeader(mcuBufferSize) == mcuBufferSize

\* uploadFpgaBitstream: mcuDataSize (owon.ts:379)
McuDataSize(mcuBufferSize) == mcuBufferSize - FRAME_HEADER_SIZE

\* uploadFpgaBitstream: transmitDataSize (owon.ts:386-389)
TransmitDataSize(mcuDataSize, byteLength, i) == Min(mcuDataSize, byteLength - i)

\* uploadFpgaBitstream: mcuBuffer, the frame index followed by the data (owon.ts:392-398)
McuBuffer(fpgaFirmware, i, mcuFrameIndex, transmitDataSize) ==
  U32LE(mcuFrameIndex) \o SubSeq(fpgaFirmware, i + 1, i + transmitDataSize)

\* mutant of NextFrameIndex: the frame index is not advanced
NextFrameIndex_stuck(mcuFrameIndex) == mcuFrameIndex

\* uploadFpgaBitstream: the loop increment of mcuFrameIndex (owon.ts:384)
NextFrameIndex(mcuFrameIndex) == mcuFrameIndex + 1

\* uploadFpgaBitstream: the sub-chunk written at chunkOffset (owon.ts:404-407)
ChunkOf(mcuBuffer, chunkOffset) ==
  SubSeq(mcuBuffer, chunkOffset + 1,
         chunkOffset + Min(CHUNK_SIZE, Len(mcuBuffer) - chunkOffset))

-----------------------------------------------------------------------------
(* What the device and the environment may answer *)

\* byte 0 of a five-byte response
StatusBytes == {AFFIRMATIVE_RESPONSE, FPGA_ACCEPTING_UPLOAD_RESPONSE}

\* byte 0 of the response to the device-type query
DeviceTypes == {DEVICE_TYPE, 0}

\* the receive-buffer size the upload handshake reports (bytes 1..4)
BufferSizes == {0, 4, 5, 7, 12, 70}

\* byte 0 (the channel id) of a sample frame
SampleFrames == {0, 1}

\* the flash dumps: 1 and 2 are valid, 3 has its magic bytes swapped, 4 has
\* version 3, 5 has both
DumpIds == {1, 2, 3, 4, 5}

FlashByte(d, offset) ==
  CASE offset = 0 -> IF d \in {3, 5} THEN 85 ELSE 170
    [] offset = 1 -> IF d \in {3, 5} THEN 170 ELSE 85
    [] offset = 2 -> IF d \in {4, 5} THEN 3 ELSE FLASH_VERSION
    [] offset \in 3 .. 5 -> 0
    [] OTHER -> (offset * (2 * d + 1) + 17 * d) % 256

\* a firmware image of byteLength bytes
ImageOf(byteLength) == [k \in 1 .. byteLength |-> (37 * k + 11) % 256]

-----------------------------------------------------------------------------
(* readFlash: what it takes from the dump *)

\* receivedData.getUint16(0): big-endian
FlashHeaderOf(d) == FlashByte(d, 0) * 256 + FlashByte(d, 1)

\* receivedData.getUint32(2, true)
FlashVersionOf(d) ==
  FlashByte(d, 2) + 256 * FlashByte(d, 3) + 65536 * FlashByte(d, 4)
    + 16777216 * FlashByte(d, 5)

\* receivedData.getUint16(bufferOffset, true)
FlashUint16LE(d, bufferOffset) ==
  FlashByte(d, bufferOffset) + 256 * FlashByte(d, bufferOffset + 1)

\* bufferOffset when the three nested loops reach (calibrationInfoIndex,
\* channelIndex, voltbaseIndex): 6 plus 2 per earlier iteration
BufferOffsetAt(calibrationInfoIndex, channelIndex, voltbaseIndex) ==
  6 + 2 * ((calibrationInfoIndex * CHANNEL_COUNT + channelIndex) * VOLTBASE_COUNT
           + voltbaseIndex)

\* calibrationData_ after the loops (owon.ts:284-306)
CalibrationFrom(d) ==
  [k \in DOMAIN EmptyCalibration |->
     LET channelIndex == k \div (CALIBRATION_INFO_COUNT * VOLTBASE_COUNT)
         calibrationInfoIndex == (k % (CALIBRATION_INFO_COUNT * VOLTBASE_COUNT))
                                   \div VOLTBASE_COUNT
         voltbaseIndex == k % VOLTBASE_COUNT
     IN  FlashUint16LE(d, BufferOffsetAt(calibrationInfoIndex, channelIndex,
                                         voltbaseIndex))]

\* new Uint8Array(receivedData.buffer, 207, 4) and (.., 212, 15) as character codes
FirmwareVersionFrom(d) == [k \in 1 .. 4 |-> FlashByte(d, 207 + k - 1)]
SerialNumberFrom(d) == [k \in 1 .. 15 |-> FlashByte(d, 212 + k - 1)]

-----------------------------------------------------------------------------
(* Transport *)

OutEvent(bytes, request) ==
  [dir |-> "out", bytes |-> bytes, length |-> Len(bytes), expected |-> -1,
   request |-> request]

InEvent(length, bytes, expected) ==
  [dir |-> "in", bytes |-> bytes, length |-> length, expected |-> expected,
   request |-> FALSE]

CallbackEvent(bytes) ==
  [dir |-> "callback", bytes |-> bytes, length |-> Len(bytes), expected |-> -1,
   request |-> FALSE]

Goto(s, label) == pc' = [pc EXCEPT ![s] = label]

\* Owon.transferOut (owon.ts:325-334); USBDevice.transferOut rejects on a
\* device that is not open.  request: the write starts a new request.
transferOut(s, packedCommand, request, next) ==
  /\ IF outEndpoint_[s] /\ opened
       THEN /\ pending' = IF request THEN Append(pending, s) ELSE pending
            /\ log' = [log EXCEPT ![s] = Append(@, OutEvent(packedCommand, request))]
            /\ Goto(s, next)
       ELSE /\ Goto(s, "threw")
            /\ UNCHANGED <<pending, log>>
  /\ UNCHANGED <<opened, readOwner>>

\* Owon.transferIn can proceed (owon.ts:336-339)
CanTransferIn(s) == inEndpoint_[s] /\ opened

\* Owon.transferIn (owon.ts:341-345): the device answers its oldest request
Receive(s, length, response, expected) ==
  /\ pending # << >>
  /\ pending' = Tail(pending)
  /\ readOwner' = [readOwner EXCEPT ![s] = Head(pending)]
  /\ log' = [log EXCEPT ![s] = Append(@, InEvent(length, response, expected))]
  /\ UNCHANGED opened

\* mutant of expectResponse: the response is read and its status ignored
expectResponse_unchecked(s, expected, next) ==
  IF CanTransferIn(s)
    THEN \E actual \in StatusBytes :
           /\ Receive(s, 5, << actual >>, expected)
           /\ Goto(s, next)
    ELSE /\ Goto(s, "threw")
         /\ UNCHANGED linkVars

\* Owon.expectResponse (owon.ts:348-359)
expectResponse(s, expected, next) ==
  IF CanTransferIn(s)
    THEN \E actual \in StatusBytes :
           /\ Receive(s, 5, << actual >>, expected)
           /\ Goto(s, IF ResponseMatches(actual, expected) THEN next ELSE "threw")
    ELSE /\ Goto(s, "threw")
         /\ UNCHANGED linkVars

\* "await this.transferOut(packCommand(..)); " of method o
WriteStep(s, o, command) ==
  /\ op[s] = o
  /\ pc[s] = "out"
  /\ transferOut(s, command, TRUE, "in")
  /\ UNCHANGED <<op, args, step, loc, conn>>
  /\ UNCHANGED sessionVars

\* "await this.expectResponse(AFFIRMATIVE_RESPONSE);" of method o, whose last
\* acknowledged write is number last and which goes on at label after
AckStep(s, o, last, after) ==
  /\ op[s] = o
  /\ pc[s] = "in"
  /\ expectResponse(s, AFFIRMATIVE_RESPONSE, IF step[s] < last THEN "out" ELSE after)
  /\ step' = IF pc'[s] = "threw" THEN step ELSE [step EXCEPT ![s] = @ + 1]
  /\ UNCHANGED <<op, args, loc, conn>>
  /\ UNCHANGED sessionVars

-----------------------------------------------------------------------------
(* The methods of Owon *)

NoArgs ==
  [channel |-> 0, on |-> FALSE, voltage |-> 0, coupling |-> 0, timebase |-> 0,
   source |-> 0, mode |-> 0, type |-> 0, slope |-> 0, triggerLevel |-> 0]

\* the locals of a method call. stopRequested and stopCycle record that the
\* caller of sampleInfinitely asked the loop to stop, and during which cycle:
\* the method takes no such signal (owon.ts:581) and never reads them.
NoLocals ==
  [fpgaFirmware |-> << >>, mcuDataSize |-> 0, i |-> 0, mcuFrameIndex |-> 0,
   mcuBuffer |-> << >>, chunkOffset |-> 0, stopRequested |-> FALSE,
   stopCycle |-> 0, error |-> ""]

\* open: device_.open(), selectConfiguration(1), claimInterface(0) and the
\* two endpoints (owon.ts:232-245)
open_device(s) ==
  /\ op[s] = "open"
  /\ pc[s] = "device"
  /\ opened' = TRUE
  /\ outEndpoint_' = [outEndpoint_ EXCEPT ![s] = TRUE]
  /\ inEndpoint_' = [inEndpoint_ EXCEPT ![s] = TRUE]
  /\ Goto(s, "out")
  /\ UNCHANGED <<op, args, step, loc, conn, calibrationData_, firmwareVersion_,
                 serialNumber_, flashLoaded, pending, log, readOwner, call,
                 edgeLevelSource>>

\* getDeviceType, called by open (owon.ts:256)
getDeviceType_transferOut(s) ==
  WriteStep(s, "open", packCommand(GET_DEVICE_TYPE_ADDRESS, << DEVICE_TYPE >>))

\* getDeviceType and the check of open (owon.ts:258-259, 247-252)
getDeviceType_transferIn(s) ==
  /\ op[s] = "open"
  /\ pc[s] = "in"
  /\ IF CanTransferIn(s)
       THEN \E deviceType \in DeviceTypes :
              /\ Receive(s, 5, << deviceType >>, DEVICE_TYPE)
              /\ Goto(s, IF deviceType # DEVICE_TYPE THEN "threw" ELSE "returned")
       ELSE /\ Goto(s, "threw")
            /\ UNCHANGED linkVars
  /\ UNCHANGED <<op, args, step, loc, conn>>
  /\ UNCHANGED sessionVars

\* readFlash (owon.ts:263-265)
readFlash_transferOut(s) ==
  WriteStep(s, "readFlash", packCommand(READ_FLASH_ADDRESS, << 1 >>))

\* a readFlash that does not look at the version
readFlash_error_headerOnly(d) ==
  IF FlashHeaderOf(d) # FLASH_HEADER THEN "Expected flash header" ELSE ""

\* the Error readFlash throws for dump d, "" when it throws none: the header
\* is tested first (owon.ts:268-275), the version after it (owon.ts:276-279)
readFlash_error(d) ==
  IF FlashHeaderOf(d) # FLASH_HEADER
    THEN "Expected flash header"
    ELSE IF FlashVersionOf(d) # FLASH_VERSION
           THEN "Expected flash version"
           ELSE ""

\* readFlash: the dump is read, validated and copied into the session
\* (owon.ts:267-322)
readFlash_transferIn(s) ==
  /\ op[s] = "readFlash"
  /\ pc[s] = "in"
  /\ IF CanTransferIn(s)
       THEN \E d \in DumpIds :
              /\ Receive(s, FLASH_LENGTH,
                         [k \in 1 .. FLASH_LENGTH |-> FlashByte(d, k - 1)], -1)
              /\ IF readFlash_error(d) # ""
                   THEN /\ Goto(s, "threw")
                        /\ loc' = [loc EXCEPT ![s].error = readFlash_error(d)]
                        /\ UNCHANGED <<calibrationData_, firmwareVersion_,
                                       serialNumber_, flashLoaded>>
                   ELSE /\ UNCHANGED loc
                        /\ calibrationData_' =
                             [calibrationData_ EXCEPT ![s] = CalibrationFrom(d)]
                        /\ firmwareVersion_' =
                             [firmwareVersion_ EXCEPT ![s] = FirmwareVersionFrom(d)]
                        /\ serialNumber_' =
                             [serialNumber_ EXCEPT ![s] = SerialNumberFrom(d)]
                        /\ flashLoaded' = [flashLoaded EXCEPT ![s] = TRUE]
                        /\ Goto(s, "returned")
       ELSE /\ Goto(s, "threw")
            /\ UNCHANGED linkVars
            /\ UNCHANGED loc
            /\ UNCHANGED <<calibrationData_, firmwareVersion_, serialNumber_,
                           flashLoaded>>
  /\ UNCHANGED <<op, args, step, conn, outEndpoint_, inEndpoint_, call,
                 edgeLevelSource>>

\* the images fetch(fpgaFirmwareUrl) may deliver: any image to a caller of the
\* class; to HelloWorld.connect the one image bundled with the page
FirmwareImages(s) ==
  IF conn[s].state = "none"
    THEN {ImageOf(byteLength) : byteLength \in 0 .. MaxImageLen}
    ELSE {ImageOf(7)}

\* uploadFpgaBitstream: the firmware is fetched (owon.ts:362-364)
uploadFpgaBitstream_fetch(s) ==
  /\ op[s] = "uploadFpgaBitstream"
  /\ pc[s] = "fetch"
  /\ \E fpgaFirmware \in FirmwareImages(s) :
       loc' = [loc EXCEPT ![s] = [NoLocals EXCEPT !.fpgaFirmware = fpgaFirmware]]
  /\ Goto(s, "out")
  /\ UNCHANGED <<op, args, step, conn>>
  /\ UNCHANGED sessionVars
  /\ UNCHANGED linkVars

\* uploadFpgaBitstream: the image length is announced (owon.ts:369-374)
uploadFpgaBitstream_announce(s) ==
  WriteStep(s, "uploadFpgaBitstream",
            packCommand(Address.FPGA_UPLOAD, U32LE(Len(loc[s].fpgaFirmware))))

\* uploadFpgaBitstream: the handshake (owon.ts:375-379)
uploadFpgaBitstream_handshake(s) ==
  /\ op[s] = "uploadFpgaBitstream"
  /\ pc[s] = "in"
  /\ IF CanTransferIn(s)
       THEN \E actual \in StatusBytes, mcuBufferSize \in BufferSizes :
              /\ Receive(s, 5, << actual >> \o U32LE(mcuBufferSize),
                         FPGA_ACCEPTING_UPLOAD_RESPONSE)
              /\ IF ResponseMatches(actual, FPGA_ACCEPTING_UPLOAD_RESPONSE)
                   THEN /\ loc' = [loc EXCEPT ![s].mcuDataSize = McuDataSize(mcuBufferSize),
                                              ![s].i = 0,
                                              ![s].mcuFrameIndex = 0]
                        /\ Goto(s, "frame")
                   ELSE /\ Goto(s, "threw")
                        /\ UNCHANGED loc
       ELSE /\ Goto(s, "threw")
            /\ UNCHANGED linkVars
            /\ UNCHANGED loc
  /\ UNCHANGED <<op, args, step, conn>>
  /\ UNCHANGED sessionVars

\* uploadFpgaBitstream: the loop test and the frame buffer (owon.ts:381-398).
\* DataView.setUint32(0, ..) throws a RangeError on a buffer shorter than 4
\* bytes.  A loop that advances sends at most byteLength frames; one that does
\* not advance is cut after byteLength + 1 frames.
uploadFpgaBitstream_frame(s) ==
  /\ op[s] = "uploadFpgaBitstream"
  /\ pc[s] = "frame"
  /\ loc[s].mcuFrameIndex <= Len(loc[s].fpgaFirmware)
  /\ LET byteLength == Len(loc[s].fpgaFirmware)
         transmitDataSize == TransmitDataSize(loc[s].mcuDataSize, byteLength, loc[s].i)
         transmitBufferSize == transmitDataSize + FRAME_HEADER_SIZE
     IN  IF loc[s].i < byteLength
           THEN IF transmitBufferSize < FRAME_HEADER_SIZE
                  THEN /\ Goto(s, "threw")
                       /\ UNCHANGED loc
                  ELSE /\ loc' = [loc EXCEPT
                                    ![s].mcuBuffer =
                                       McuBuffer(loc[s].fpgaFirmware, loc[s].i,
                                                 loc[s].mcuFrameIndex, transmitDataSize),
                                    ![s].chunkOffset = 0]
                       /\ Goto(s, "chunk")
           ELSE /\ Goto(s, "returned")
                /\ UNCHANGED loc
  /\ UNCHANGED <<op, args, step, conn>>
  /\ UNCHANGED sessionVars
  /\ UNCHANGED linkVars

\* mutant of uploadFpgaBitstream_chunk: the next frame is built without
\* waiting for the acknowledgement of this one
uploadFpgaBitstream_chunk_pipelined(s) ==
  /\ op[s] = "uploadFpgaBitstream"
  /\ pc[s] = "chunk"
  /\ transferOut(s, ChunkOf(loc[s].mcuBuffer, loc[s].chunkOffset),
                 loc[s].chunkOffset = 0,
                 IF loc[s].chunkOffset + CHUNK_SIZE < Len(loc[s].mcuBuffer)
                   THEN "chunk" ELSE "frame")
  /\ loc' = IF pc'[s] = "frame"
              THEN [loc EXCEPT ![s].i = @ + loc[s].mcuDataSize,
                               ![s].mcuFrameIndex = NextFrameIndex(@)]
              ELSE [loc EXCEPT ![s].chunkOffset = @ + CHUNK_SIZE]
  /\ UNCHANGED <<op, args, step, conn>>
  /\ UNCHANGED sessionVars

\* uploadFpgaBitstream: one sub-chunk of the frame is written (owon.ts:399-408)
uploadFpgaBitstream_chunk(s) ==
  /\ op[s] = "uploadFpgaBitstream"
  /\ pc[s] = "chunk"
  /\ transferOut(s, ChunkOf(loc[s].mcuBuffer, loc[s].chunkOffset),
                 loc[s].chunkOffset = 0,
                 IF loc[s].chunkOffset + CHUNK_SIZE < Len(loc[s].mcuBuffer)
                   THEN "chunk" ELSE "ack")
  /\ loc' = [loc EXCEPT ![s].chunkOffset = @ + CHUNK_SIZE]
  /\ UNCHANGED <<op, args, step, conn>>
  /\ UNCHANGED sessionVars

\* uploadFpgaBitstream: the frame is acknowledged, the loop advances
\* (owon.ts:409, 384)
uploadFpgaBitstream_ack(s) ==
  /\ op[s] = "uploadFpgaBitstream"
  /\ pc[s] = "ack"
  /\ expectResponse(s, AFFIRMATIVE_RESPONSE, "frame")
  /\ loc' = IF pc'[s] = "frame"
              THEN [loc EXCEPT ![s].i = @ + loc[s].mcuDataSize,
                               ![s].mcuFrameIndex = NextFrameIndex(@)]
              ELSE loc
  /\ UNCHANGED <<op, args, step, conn>>
  /\ UNCHANGED sessionVars

\* configurePhaseFine (owon.ts:413-418)
configurePhaseFine_transferOut(s) ==
  WriteStep(s, "configurePhaseFine", packCommand(Address.PHASE_FINE, << 0, 0 >>))

configurePhaseFine_expectResponse(s) ==
  AckStep(s, "configurePhaseFine", 1, "returned")

\* configureChannel (owon.ts:420-478)
\* a configureChannel that writes the offset before the gain
configureChannel_transferOut_offsetFirst(s) ==
  WriteStep(s, "configureChannel",
            ConfigureChannelCommand(IF step[s] = 1 THEN 1 ELSE 5 - step[s],
                                    args[s], calibrationData_[s]))

configureChannel_transferOut(s) ==
  WriteStep(s, "configureChannel",
            ConfigureChannelCommand(step[s], args[s], calibrationData_[s]))

configureChannel_expectResponse(s) ==
  AckStep(s, "configureChannel", 3, "returned")

\* configureTimebase (owon.ts:480-490)
configureTimebase_transferOut(s) ==
  WriteStep(s, "configureTimebase",
            packCommand(Address.TIMEBASE, U32LE(args[s].timebase)))

configureTimebase_expectResponse(s) ==
  AckStep(s, "configureTimebase", 1, "returned")

\* configureEdgeTrigger (owon.ts:500-561)
configureEdgeTrigger_transferOut(s) ==
  WriteStep(s, "configureEdgeTrigger", ConfigureEdgeTriggerCommand(step[s], args[s]))

\* the response to the level write (owon.ts:527) and to the trigger-type
\* write (owon.ts:560); an acknowledged level write has set the edge-level
\* register of options.source
configureEdgeTrigger_expectResponse(s) ==
  /\ op[s] = "configureEdgeTrigger"
  /\ pc[s] = "in"
  /\ expectResponse(s, AFFIRMATIVE_RESPONSE, IF step[s] < 2 THEN "out" ELSE "returned")
  /\ step' = IF pc'[s] = "threw" THEN step ELSE [step EXCEPT ![s] = @ + 1]
  /\ edgeLevelSource' = IF step[s] = 1 /\ pc'[s] # "threw"
                          THEN [edgeLevelSource EXCEPT ![s] = args[s].source]
                          ELSE edgeLevelSource
  /\ UNCHANGED <<op, args, loc, conn>>
  /\ UNCHANGED <<outEndpoint_, inEndpoint_, calibrationData_, firmwareVersion_,
                 serialNumber_, flashLoaded, call>>

\* turnOnChannel1 (owon.ts:563-568)
turnOnChannel1_transferOut(s) ==
  WriteStep(s, "turnOnChannel1", packCommand(Address.CHANNEL_ON, << 1 >>))

turnOnChannel1_expectResponse(s) ==
  AckStep(s, "turnOnChannel1", 1, "returned")

\* getData (owon.ts:570-579)
getData_transferOut(s) ==
  WriteStep(s, "getData", GetDataCommand)

getData_transferIn(s) ==
  /\ op[s] = "getData"
  /\ pc[s] = "in"
  /\ IF CanTransferIn(s)
       THEN \E channel \in SampleFrames :
              /\ Receive(s, SAMPLE_FRAME_LENGTH, << channel >>, -1)
              /\ Goto(s, "returned")
       ELSE /\ Goto(s, "threw")
            /\ UNCHANGED linkVars
  /\ UNCHANGED <<op, args, step, loc, conn>>
  /\ UNCHANGED sessionVars

\* sampleInfinitely: the eight writes before the loop (owon.ts:582-626)
sampleInfinitely_arm_transferOut(s) ==
  WriteStep(s, "sampleInfinitely", ArmCommands[step[s]])

sampleInfinitely_arm_expectResponse(s) ==
  AckStep(s, "sampleInfinitely", Len(ArmCommands), "loop")

\* a loop without an upper limit of cycles
sampleInfinitely_loop_endless(s) ==
  /\ op[s] = "sampleInfinitely"
  /\ pc[s] = "loop"
  /\ Goto(s, "cycle:out")
  /\ step' = [step EXCEPT ![s] = 1]
  /\ UNCHANGED <<op, args, loc, conn>>
  /\ UNCHANGED sessionVars
  /\ UNCHANGED linkVars

\* sampleInfinitely: the loop test (owon.ts:631)
sampleInfinitely_loop(s) ==
  /\ op[s] = "sampleInfinitely"
  /\ pc[s] = "loop"
  /\ Goto(s, IF loc[s].i < MaxCycles THEN "cycle:out" ELSE "returned")
  /\ step' = [step EXCEPT ![s] = 1]
  /\ UNCHANGED <<op, args, loc, conn>>
  /\ UNCHANGED sessionVars
  /\ UNCHANGED linkVars

\* sampleInfinitely: the trigger-done and data-finished writes (owon.ts:632-634, 637-639)
sampleInfinitely_cycle_transferOut(s) ==
  /\ op[s] = "sampleInfinitely"
  /\ pc[s] = "cycle:out"
  /\ transferOut(s, CycleCommands[step[s]], TRUE, "cycle:in")
  /\ UNCHANGED <<op, args, step, loc, conn>>
  /\ UNCHANGED sessionVars

\* sampleInfinitely: their acknowledgements (owon.ts:635, 640)
sampleInfinitely_cycle_expectResponse(s) ==
  /\ op[s] = "sampleInfinitely"
  /\ pc[s] = "cycle:in"
  /\ expectResponse(s, AFFIRMATIVE_RESPONSE,
                    IF step[s] < Len(CycleCommands) THEN "cycle:out" ELSE "request")
  /\ step' = IF pc'[s] = "threw" THEN step ELSE [step EXCEPT ![s] = @ + 1]
  /\ UNCHANGED <<op, args, loc, conn>>
  /\ UNCHANGED sessionVars

\* sampleInfinitely: the data request (owon.ts:643)
sampleInfinitely_request(s) ==
  /\ op[s] = "sampleInfinitely"
  /\ pc[s] = "request"
  /\ transferOut(s, SampleRequestCommand, TRUE, "receive")
  /\ UNCHANGED <<op, args, step, loc, conn>>
  /\ UNCHANGED sessionVars

\* a loop that hands every frame to the callback twice
gotDataCalls_twice(receivedData) ==
  << CallbackEvent(receivedData), CallbackEvent(receivedData) >>

\* the calls of gotData made for one received frame (owon.ts:648)
gotDataCalls(receivedData) == << CallbackEvent(receivedData) >>

\* sampleInfinitely: the sample frame is read and handed to gotData, the loop
\* advances (owon.ts:646-648, 631)
sampleInfinitely_receive(s) ==
  /\ op[s] = "sampleInfinitely"
  /\ pc[s] = "receive"
  /\ IF CanTransferIn(s)
       THEN \E channel \in SampleFrames :
              /\ pending # << >>
              /\ pending' = Tail(pending)
              /\ readOwner' = [readOwner EXCEPT ![s] = Head(pending)]
              /\ log' = [log EXCEPT ![s] =
                           @ \o << InEvent(SAMPLE_FRAME_LENGTH, << channel >>, -1) >>
                             \o gotDataCalls(<< channel >>)]
              /\ UNCHANGED opened
              /\ loc' = [loc EXCEPT ![s].i = @ + 1]
              /\ Goto(s, "loop")
       ELSE /\ Goto(s, "threw")
            /\ UNCHANGED linkVars
            /\ UNCHANGED loc
  /\ UNCHANGED <<op, args, step, conn>>
  /\ UNCHANGED sessionVars

\* the caller asks a running sampleInfinitely to stop while a cycle is in
\* progress; sampleInfinitely(gotData) has no parameter that could carry the
\* request (owon.ts:581) and its loop header tests only i < 5000 (owon.ts:631)
requestStop(s) ==
  /\ op[s] = "sampleInfinitely"
  /\ pc[s] \in {"cycle:in", "request", "receive"}
  /\ ~loc[s].stopRequested
  /\ loc' = [loc EXCEPT ![s].stopRequested = TRUE, ![s].stopCycle = loc[s].i]
  /\ UNCHANGED <<pc, op, args, step, conn>>
  /\ UNCHANGED sessionVars
  /\ UNCHANGED linkVars

\* close (owon.ts:652-654)
close_device(s) ==
  /\ op[s] = "close"
  /\ pc[s] = "device"
  /\ opened' = FALSE
  /\ Goto(s, "returned")
  /\ UNCHANGED <<op, args, step, loc, conn, pending, log, readOwner>>
  /\ UNCHANGED sessionVars

\* one step of whatever method session s runs
MethodStep(s) ==
  \/ open_device(s)
  \/ getDeviceType_transferOut(s)
  \/ getDeviceType_transferIn(s)
  \/ readFlash_transferOut(s)
  \/ readFlash_transferIn(s)
  \/ uploadFpgaBitstream_fetch(s)
  \/ uploadFpgaBitstream_announce(s)
  \/ uploadFpgaBitstream_handshake(s)
  \/ uploadFpgaBitstream_frame(s)
  \/ uploadFpgaBitstream_chunk(s)
  \/ uploadFpgaBitstream_ack(s)
  \/ configurePhaseFine_transferOut(s)
  \/ configurePhaseFine_expectResponse(s)
  \/ configureEdgeTrigger_transferOut(s)
  \/ configureEdgeTrigger_expectResponse(s)
  \/ configureTimebase_transferOut(s)
  \/ configureTimebase_expectResponse(s)
  \/ configureChannel_transferOut(s)
  \/ configureChannel_expectResponse(s)
  \/ turnOnChannel1_transferOut(s)
  \/ turnOnChannel1_expectResponse(s)
  \/ sampleInfinitely_arm_transferOut(s)
  \/ sampleInfinitely_arm_expectResponse(s)
  \/ sampleInfinitely_loop(s)
  \/ sampleInfinitely_cycle_transferOut(s)
  \/ sampleInfinitely_cycle_expectResponse(s)
  \/ sampleInfinitely_request(s)
  \/ sampleInfinitely_receive(s)
  \/ close_device(s)

-----------------------------------------------------------------------------
(* Callers *)

Operations ==
  {"open", "readFlash", "uploadFpgaBitstream", "configurePhaseFine",
   "configureEdgeTrigger", "configureTimebase", "configureChannel",
   "turnOnChannel1", "getData", "sampleInfinitely", "close"}

TriggerLevels == (0 - MaxTriggerLevel) .. MaxTriggerLevel

\* the arguments a caller may pass to method o
ArgsOf(o) ==
  CASE o = "configureChannel" ->
         {[NoArgs EXCEPT !.channel = channel, !.on = on, !.voltage = voltage,
                         !.coupling = coupling] :
            channel \in {Channel.CH1, Channel.CH2}, on \in BOOLEAN,
            voltage \in 0 .. (VOLTBASE_COUNT - 1),
            coupling \in {Coupling.AC, Coupling.DC, Coupling.GND}}
    [] o = "configureTimebase" ->
         {[NoArgs EXCEPT !.timebase = timebase] : timebase \in Timebase}
    [] o = "configureEdgeTrigger" ->
         {[NoArgs EXCEPT !.source = source, !.mode = mode, !.type = type,
                         !.slope = slope, !.triggerLevel = triggerLevel] :
            source \in {TriggerSource.CH1, TriggerSource.CH2, TriggerSource.EXTERNAL},
            mode \in {TriggerMode.SINGLE, TriggerMode.ALTERNATE},
            type \in {TriggerType.EDGE, TriggerType.SLOPE, TriggerType.VIDEO,
                      TriggerType.PULSE},
            slope \in {TriggerSlope.RISING, TriggerSlope.FALLING},
            triggerLevel \in TriggerLevels}
    [] OTHER -> {NoArgs}

\* where method o starts
Entry(o) ==
  CASE o \in {"open", "close"} -> "device"
    [] o = "uploadFpgaBitstream" -> "fetch"
    [] OTHER -> "out"

\* session s starts method o with arguments a
Start(s, o, a) ==
  /\ op' = [op EXCEPT ![s] = o]
  /\ args' = [args EXCEPT ![s] = a]
  /\ step' = [step EXCEPT ![s] = 1]
  /\ loc' = [loc EXCEPT ![s] = NoLocals]
  /\ log' = [log EXCEPT ![s] = << >>]
  /\ Goto(s, Entry(o))

\* a caller of the class calls a method of an idle session
Invoke(s) ==
  /\ conn[s].state = "none"
  /\ pc[s] = "idle"
  /\ \E o \in Operations : \E a \in ArgsOf(o) : Start(s, o, a)
  /\ UNCHANGED <<conn, opened, pending, readOwner>>
  /\ UNCHANGED sessionVars

\* the promise of the method settles and the caller goes on
Settle(s) ==
  /\ conn[s].state = "none"
  /\ pc[s] \in {"returned", "threw"}
  /\ op' = [op EXCEPT ![s] = "none"]
  /\ args' = [args EXCEPT ![s] = NoArgs]
  /\ step' = [step EXCEPT ![s] = 1]
  /\ loc' = [loc EXCEPT ![s] = NoLocals]
  /\ log' = [log EXCEPT ![s] = << >>]
  /\ Goto(s, "idle")
  /\ UNCHANGED <<conn, opened, pending, readOwner>>
  /\ UNCHANGED sessionVars

\* HelloWorld.connect: the methods it awaits, in order (HelloWorld.vue:72-109)
\* a connect that configures the edge trigger before it zeroes phase-fine
ConnectSequence_triggerFirst ==
  << "open", "readFlash", "uploadFpgaBitstream", "configureEdgeTrigger",
     "configurePhaseFine", "configureTimebase", "configureChannel",
     "turnOnChannel1", "sampleInfinitely", "close" >>

ConnectSequence ==
  << "open", "readFlash", "uploadFpgaBitstream", "configurePhaseFine",
     "configureEdgeTrigger", "configureTimebase", "configureChannel",
     "turnOnChannel1", "sampleInfinitely", "close" >>

\* HelloWorld.connect: the arguments it passes (HelloWorld.vue:83-101)
ConnectArgs(o) ==
  CASE o = "configureEdgeTrigger" ->
         [NoArgs EXCEPT !.source = TriggerSource.CH1, !.type = TriggerType.EDGE,
                        !.mode = TriggerMode.SINGLE, !.slope = TriggerSlope.RISING,
                        !.triggerLevel = 36]
    [] o = "configureTimebase" -> [NoArgs EXCEPT !.timebase = 80]
    [] o = "configureChannel" ->
         [NoArgs EXCEPT !.channel = Channel.CH1, !.on = TRUE,
                        !.voltage = Voltage.V2, !.coupling = Coupling.DC]
    [] OTHER -> NoArgs

\* HelloWorld.connect is invoked: a new Owon on the device, then open()
\* (HelloWorld.vue:60-73)
connect(s) ==
  /\ conn[s].state = "ready"
  /\ conn' = [conn EXCEPT ![s] = [state |-> "running", k |-> 1, completed |-> << >>]]
  /\ Start(s, ConnectSequence[1], ConnectArgs(ConnectSequence[1]))
  /\ UNCHANGED <<opened, pending, readOwner>>
  /\ UNCHANGED sessionVars

\* HelloWorld.connect: an awaited method returned, the next one is called
connect_continue(s) ==
  /\ conn[s].state = "running"
  /\ pc[s] = "returned"
  /\ conn[s].k < Len(ConnectSequence)
  /\ conn' = [conn EXCEPT ![s].k = @ + 1,
                          ![s].completed = Append(@, op[s])]
  /\ Start(s, ConnectSequence[conn[s].k + 1], ConnectArgs(ConnectSequence[conn[s].k + 1]))
  /\ UNCHANGED <<opened, pending, readOwner>>
  /\ UNCHANGED sessionVars

\* the promise of connect settles: its locals, its Owon's method frame and
\* what was observed of it are dropped
Finish(s) ==
  /\ op' = [op EXCEPT ![s] = "none"]
  /\ args' = [args EXCEPT ![s] = NoArgs]
  /\ step' = [step EXCEPT ![s] = 1]
  /\ loc' = [loc EXCEPT ![s] = NoLocals]
  /\ log' = [log EXCEPT ![s] = << >>]
  /\ Goto(s, "done")

\* HelloWorld.connect: close() returned (HelloWorld.vue:109-110)
connect_resolve(s) ==
  /\ conn[s].state = "running"
  /\ pc[s] = "returned"
  /\ conn[s].k = Len(ConnectSequence)
  /\ conn' = [conn EXCEPT ![s].state = "resolved",
                          ![s].completed = Append(@, op[s])]
  /\ Finish(s)
  /\ UNCHANGED <<opened, pending, readOwner>>
  /\ UNCHANGED sessionVars

\* HelloWorld.connect: an awaited method threw; nothing catches it
connect_reject(s) ==
  /\ conn[s].state = "running"
  /\ pc[s] = "threw"
  /\ conn' = [conn EXCEPT ![s].state = "rejected"]
  /\ Finish(s)
  /\ UNCHANGED <<opened, pending, readOwner>>
  /\ UNCHANGED sessionVars

-----------------------------------------------------------------------------
(* Specifications *)

\* no function was called on its own
NoCall == [fn |-> "none"]

\* new Owon(device) (owon.ts:219-230), on a device that is not open
InitSessions ==
  /\ pc = [s \in Sessions |-> "idle"]
  /\ op = [s \in Sessions |-> "none"]
  /\ args = [s \in Sessions |-> NoArgs]
  /\ step = [s \in Sessions |-> 1]
  /\ loc = [s \in Sessions |-> NoLocals]
  /\ outEndpoint_ = [s \in Sessions |-> FALSE]
  /\ inEndpoint_ = [s \in Sessions |-> FALSE]
  /\ calibrationData_ = [s \in Sessions |-> EmptyCalibration]
  /\ firmwareVersion_ = [s \in Sessions |-> << >>]
  /\ serialNumber_ = [s \in Sessions |-> << >>]
  /\ opened = FALSE
  /\ pending = << >>
  /\ log = [s \in Sessions |-> << >>]
  /\ flashLoaded = [s \in Sessions |-> FALSE]
  /\ readOwner = [s \in Sessions |-> s]
  /\ call = NoCall
  /\ edgeLevelSource = [s \in Sessions |-> -1]

\* the session a sequential caller uses
Callers == {1}

Init ==
  /\ InitSessions
  /\ conn = [s \in Sessions |-> [state |-> "none", k |-> 0, completed |-> << >>]]

Next ==
  \E s \in Callers :
    \/ Invoke(s)
    \/ Settle(s)
    \/ MethodStep(s)
    \/ getData_transferOut(s)
    \/ getData_transferIn(s)
    \/ requestStop(s)

Spec == Init /\ [][Next]_vars

InitConnect ==
  /\ InitSessions
  /\ conn = [s \in Sessions |-> [state |-> "ready", k |-> 0, completed |-> << >>]]

NextConnect ==
  \E s \in Sessions :
    \/ connect(s)
    \/ connect_continue(s)
    \/ connect_resolve(s)
    \/ connect_reject(s)
    \/ MethodStep(s)

SpecConnect == InitConnect /\ [][NextConnect]_vars

\* the payloads handed to packCommand: any length up to MaxPayloadLen
PayloadOf(byteLength) == [k \in 1 .. byteLength |-> (7 * k + 3) % 256]

CommandAddresses ==
  {Address.EMPTY, Address.TRIGGER_D, Address.GET_DATA, GET_DEVICE_TYPE_ADDRESS}

\* packCommand(address, data) is called (owon.ts:192-201): it has no failing
\* path, it returns the buffer
apply_packCommand ==
  /\ call = NoCall
  /\ \E address \in CommandAddresses, byteLength \in 0 .. MaxPayloadLen :
       call' = [fn |-> "packCommand", address |-> address,
                data |-> PayloadOf(byteLength), threw |-> FALSE,
                buffer |-> packCommand(address, PayloadOf(byteLength))]
  /\ UNCHANGED <<ctlVars, linkVars, outEndpoint_, inEndpoint_, calibrationData_,
                 firmwareVersion_, serialNumber_, flashLoaded, edgeLevelSource>>

\* the frames handed to gotData: lengths around the end of the one-byte
\* channel id, around the first sample and around the last of the 1275
FrameLengths ==
  {n \in 0 .. MaxFrameLen :
     n <= 2 \/ (n >= SAMPLE_OFFSET - 2 /\ n <= SAMPLE_OFFSET + 14)
            \/ n >= MaxFrameLen - 20}

FrameVariants == {1, 2, 3}

\* byte offset of frame variant v
SampleFrameByte(v, offset) == (offset * (2 * v + 1) + 29 * v) % 256

\* dataView.getInt16(byteIndex, true)
GetInt16LE(v, byteIndex) ==
  LET u == SampleFrameByte(v, byteIndex) + 256 * SampleFrameByte(v, byteIndex + 1)
  IN  IF u >= 32768 THEN u - 65536 ELSE u

\* new Float32Array(1275): slots 0..1274, all zero; a slot holds a pair
\* <<numerator, denominator>>
NewFloatData == [timeIndex \in 0 .. (SAMPLE_COUNT - 1) |-> << 0, 1 >>]

\* one pass through the loop of gotData inside its try (HelloWorld.vue:118-129)
\* from state st = [floatData, byteIndex, timeIndex, done]: the loop test
\* fails, or getInt16 throws a RangeError because the two bytes do not lie in
\* the view, which ends the loop in the catch, or the slot is assigned; an
\* assignment to an index the typed array does not have is ignored
gotData_iteration(st, v, byteLength) ==
  IF st.done
    THEN st
    ELSE IF ~(st.byteIndex < byteLength)
           THEN [st EXCEPT !.done = TRUE]
           ELSE IF st.byteIndex + 2 > byteLength
                  THEN [st EXCEPT !.done = TRUE]
                  ELSE [floatData |->
                          IF st.timeIndex \in DOMAIN st.floatData
                            THEN [st.floatData EXCEPT ![st.timeIndex] =
                                    << GetInt16LE(v, st.byteIndex), SAMPLE_SCALE >>]
                            ELSE st.floatData,
                        byteIndex |-> st.byteIndex + SAMPLE_STRIDE,
                        timeIndex |-> st.timeIndex + 1,
                        done |-> FALSE]

\* the passes are evaluated LoopBlock at a time
LoopBlock == 64

RECURSIVE gotData_iterations(_, _, _, _)
gotData_iterations(st, v, byteLength, n) ==
  IF n = 0 \/ st.done
    THEN st
    ELSE gotData_iterations(gotData_iteration(st, v, byteLength), v, byteLength, n - 1)

\* the loop of gotData run to its end: floatData as shiftAdd receives it
RECURSIVE gotData_loop(_, _, _)
gotData_loop(st, v, byteLength) ==
  IF st.done
    THEN st.floatData
    ELSE gotData_loop(gotData_iterations(st, v, byteLength, LoopBlock), v, byteLength)

\* gotData(dataView) is called (HelloWorld.vue:113-132): getUint8(0) is
\* outside the try, so on a view without bytes the call rejects before the
\* buffer exists
apply_gotData ==
  /\ call = NoCall
  /\ \E v \in FrameVariants, byteLength \in FrameLengths :
       call' = IF byteLength < 1
                 THEN [fn |-> "gotData", variant |-> v, byteLength |-> byteLength,
                       threw |-> TRUE, floatData |-> << >>]
                 ELSE [fn |-> "gotData", variant |-> v, byteLength |-> byteLength,
                       threw |-> FALSE,
                       floatData |->
                         gotData_loop([floatData |-> NewFloatData,
                                       byteIndex |-> SAMPLE_OFFSET,
                                       timeIndex |-> 0, done |-> FALSE],
                                      v, byteLength)]
  /\ UNCHANGED <<ctlVars, linkVars, outEndpoint_, inEndpoint_, calibrationData_,
                 firmwareVersion_, serialNumber_, flashLoaded, edgeLevelSource>>

\* calibration cells around the values where amplitude / 100 changes and at
\* the ends of the 16-bit range
CalibrationSamples ==
  {0, 1, 5, 99, 100, 199, 200, 654, 655, 656, 32767, 32768, 65535}

\* configureChannel computes zeroOffset from two cells and stores it with
\* setUint16 in the two-byte buffer it sends (owon.ts:466-470)
apply_zeroOffset ==
  /\ call = NoCall
  /\ \E compensation \in CalibrationSamples, amplitude \in CalibrationSamples :
       call' = [fn |-> "zeroOffset", compensation |-> compensation,
                amplitude |-> amplitude, threw |-> FALSE,
                buffer |-> U16LE(ZeroOffset(compensation, amplitude))]
  /\ UNCHANGED <<ctlVars, linkVars, outEndpoint_, inEndpoint_, calibrationData_,
                 firmwareVersion_, serialNumber_, flashLoaded, edgeLevelSource>>

NextCalls ==
  \/ apply_packCommand
  \/ apply_gotData
  \/ apply_zeroOffset

SpecCalls == Init /\ [][NextCalls]_vars

\* the Connect button is clicked once: the steps of that one connect()
NextOneConnect ==
  \E s \in Callers :
    \/ connect(s)
    \/ connect_continue(s)
    \/ connect_resolve(s)
    \/ connect_reject(s)
    \/ MethodStep(s)

\* a continuation whose awaited promise has settled is run by the event loop,
\* and the device answers every request it was sent
SpecOneConnect ==
  InitConnect /\ [][NextOneConnect]_vars /\ WF_vars(NextOneConnect)

-----------------------------------------------------------------------------
(* Reading the log of a method *)

IsOut(e) == e.dir = "out"
IsIn(e) == e.dir = "in"
IsCallback(e) == e.dir = "callback"

\* byte 0 of a response
StatusOf(e) == e.bytes[1]

\* a little-endian 32-bit value at byte k (1-based) of b
LE32(b, k) == b[k] + 256 * b[k + 1] + 65536 * b[k + 2] + 16777216 * b[k + 3]

\* a response whose status was compared with the affirmative code and differed
IsRefusal(e) ==
  IsIn(e) /\ e.expected = AFFIRMATIVE_RESPONSE /\ StatusOf(e) # AFFIRMATIVE_RESPONSE

\* the write of a command frame to address a
IsWriteTo(e, a) == IsOut(e) /\ e.request /\ FrameAddress(e.bytes) = a

\* the bytes of the firmware frame whose first sub-chunk is event k of l
RECURSIVE FrameBytes(_, _)
FrameBytes(l, k) ==
  l[k].bytes \o
    (IF k + 1 <= Len(l) /\ IsOut(l[k + 1]) /\ ~l[k + 1].request
       THEN FrameBytes(l, k + 1) ELSE << >>)

\* the firmware frames written from event k of l on, in order
RECURSIVE FramesFrom(_, _)
FramesFrom(l, k) ==
  IF k > Len(l) THEN << >>
  ELSE IF IsOut(l[k]) /\ l[k].request
         THEN << FrameBytes(l, k) >> \o FramesFrom(l, k + 1)
         ELSE FramesFrom(l, k + 1)

\* the firmware frames session s has written in its upload (events 1 and 2
\* are the announcement and the handshake)
UploadFrames(s) == FramesFrom(log[s], 3)

\* the positions in l at which a firmware frame starts
FrameStarts(l) == {k \in 3 .. Len(l) : IsOut(l[k]) /\ l[k].request}

\* the data bytes of the frames of fs, concatenated in order
RECURSIVE ConcatData(_)
ConcatData(fs) ==
  IF fs = << >> THEN << >>
  ELSE SubSeq(Head(fs), FRAME_HEADER_SIZE + 1, Len(Head(fs))) \o ConcatData(Tail(fs))

Ceil(a, b) == (a + b - 1) \div b

Uploading(s) == op[s] = "uploadFpgaBitstream"
Handshaken(s) == Uploading(s) /\ Len(log[s]) >= 2
\* the usable frame size D the handshake of s announced
UsableFrameSize(s) == LE32(log[s][2].bytes, 2) - FRAME_HEADER_SIZE

-----------------------------------------------------------------------------
(* Claims *)

\* C1: on a session whose calibration table readFlash never loaded,
\* configureChannel sends no write to the channel's gain register (it fails
\* before, so no gain of 0 from the empty table reaches the device).
C1_NoGainWriteBeforeReadFlash ==
  \A s \in Sessions :
    (op[s] = "configureChannel" /\ ~flashLoaded[s]) =>
      \A k \in DOMAIN log[s] :
        ~IsWriteTo(log[s][k], VOLT_GAIN_ADDRESS(args[s].channel))

\* C2: in an upload the frame indices written are 0, 1, 2, .. without gap or
\* repeat; a frame is written only directly after the affirmative
\* acknowledgement of the frame before it (the first one directly after the
\* handshake); a refused frame ends the upload with an error and nothing is
\* written after it.
C2_FramesSequentialAndAcknowledged ==
  \A s \in Sessions :
    Uploading(s) =>
      LET l == log[s] IN
      /\ \A k \in FrameStarts(l) :
           /\ LE32(l[k].bytes, 1) = Cardinality({j \in FrameStarts(l) : j < k})
           /\ IsIn(l[k - 1])
           /\ StatusOf(l[k - 1]) = l[k - 1].expected
           /\ (k - 1 > 2 => l[k - 1].expected = AFFIRMATIVE_RESPONSE)
      /\ \A k \in DOMAIN l :
           IsRefusal(l[k]) => (k = Len(l) /\ pc[s] = "threw")

\* C2 witness: frame 1 was refused after frame 0 had been accepted
C2_Witness ==
  \E s \in Sessions :
    /\ Uploading(s)
    /\ pc[s] = "threw"
    /\ Cardinality(FrameStarts(log[s])) = 2
    /\ IsRefusal(log[s][Len(log[s])])

\* C3: an upload of an image of L bytes with usable frame size D >= 1 that
\* returned has written ceil(L/D) frames, all but the last with D data bytes,
\* the last with L - (ceil(L/D) - 1) * D; their data concatenated is the
\* image, and its length is the length announced in the first write.
C3_FramesPartitionImage ==
  \A s \in Sessions :
    (Uploading(s) /\ pc[s] = "returned" /\ UsableFrameSize(s) >= 1) =>
      LET D == UsableFrameSize(s)
          image == loc[s].fpgaFirmware
          L == Len(image)
          n == Ceil(L, D)
          fs == UploadFrames(s)
      IN  /\ Len(fs) = n
          /\ \A j \in 1 .. n :
               Len(fs[j]) - FRAME_HEADER_SIZE = IF j < n THEN D ELSE L - (n - 1) * D
          /\ ConcatData(fs) = image
          /\ LE32(FramePayload(log[s][1].bytes), 1) = Len(ConcatData(fs))

\* C3 witness: an image of 2*D+7 bytes went out in three frames, the last of 7 bytes
C3_Witness ==
  \E s \in Sessions :
    /\ Uploading(s)
    /\ pc[s] = "returned"
    /\ UsableFrameSize(s) >= 7
    /\ Len(loc[s].fpgaFirmware) = 2 * UsableFrameSize(s) + 7
    /\ Len(UploadFrames(s)) = 3
    /\ Len(UploadFrames(s)[3]) = FRAME_HEADER_SIZE + 7

\* C4: when the status of the upload handshake is not the accepting-upload
\* code, the upload fails and nothing is written after the announcement.
C4_RejectedHandshakeSendsNoFrame ==
  \A s \in Sessions :
    (Handshaken(s) /\ StatusOf(log[s][2]) # FPGA_ACCEPTING_UPLOAD_RESPONSE) =>
      /\ pc[s] = "threw"
      /\ Len(log[s]) = 2

\* C4 witness: a handshake was refused for a non-empty image
C4_Witness ==
  \E s \in Sessions :
    /\ Handshaken(s)
    /\ StatusOf(log[s][2]) # FPGA_ACCEPTING_UPLOAD_RESPONSE
    /\ Len(loc[s].fpgaFirmware) > 0

\* C5: a session used by one caller never has two requests outstanding: every
\* command frame (and every first sub-chunk of a firmware frame) is written
\* directly after the response to the request before it was read.
C5_OneOutstandingRequest ==
  /\ Len(pending) <= 1
  /\ \A s \in Sessions :
       \A k \in DOMAIN log[s] :
         (k > 1 /\ IsOut(log[s][k]) /\ log[s][k].request) => ~IsOut(log[s][k - 1])

\* C5 witness: a firmware frame of two sub-chunks is on the link as one request
C5_Witness ==
  \E s \in Sessions :
    /\ Uploading(s)
    /\ pc[s] = "ack"
    /\ Len(loc[s].mcuBuffer) > CHUNK_SIZE
    /\ Len(pending) = 1

\* C6: two invocations of connect on one device are serialized: there is
\* never more than one request outstanding, and every response a session
\* reads answers a request of that session.
C6_ConnectSerialized ==
  /\ Len(pending) <= 1
  /\ \A s \in Sessions : readOwner[s] = s

\* the two bytes of an edge-level write, read back as signed 8-bit values
EdgeUpper(e) == AsInt8(FramePayload(e.bytes)[1])
EdgeLower(e) == AsInt8(FramePayload(e.bytes)[2])

\* C7: the pair {upper, lower} configureEdgeTrigger writes as signed 8-bit
\* values to the edge-level register of the source satisfies upper = lower + 10
\* within -128 .. 127 and is the unclamped pair (rising: level, level - 10;
\* falling: level + 10, level) whenever that pair is in range; level 200
\* rising gives 127, 117 and level -200 falling gives -118, -128.
C7_EdgeLevelClamped ==
  \A s \in Sessions :
    (op[s] = "configureEdgeTrigger" /\ Len(log[s]) >= 1) =>
      LET e == log[s][1]
          level == args[s].triggerLevel
          rising == args[s].slope = TriggerSlope.RISING
          upper0 == IF rising THEN level ELSE level + 10
          lower0 == IF rising THEN level - 10 ELSE level
      IN  /\ IsWriteTo(e, TRIGGER_EDGE_LEVEL_ADDRESS(args[s].source))
          /\ Len(FramePayload(e.bytes)) = 2
          /\ EdgeLower(e) >= -128 /\ EdgeUpper(e) <= 127
          /\ EdgeUpper(e) = EdgeLower(e) + 10
          /\ (lower0 >= -128 /\ upper0 <= 127) =>
               (EdgeUpper(e) = upper0 /\ EdgeLower(e) = lower0)
          /\ (level = 200 /\ rising) => (EdgeUpper(e) = 127 /\ EdgeLower(e) = 117)
          /\ (level = -200 /\ ~rising) => (EdgeLower(e) = -128 /\ EdgeUpper(e) = -118)

\* the bit the specified layout of the trigger-type word puts at position n
SpecifiedTriggerBit(n, mode, type, source, slope) ==
  IF mode = TriggerMode.SINGLE
    THEN CASE n = 8 -> type % 2
           [] n = 14 -> (type \div 2) % 2
           [] n = 0 -> IF source = TriggerSource.EXTERNAL THEN 1 ELSE 0
           [] n = 13 -> IF source = TriggerSource.EXTERNAL THEN 0 ELSE source % 2
           [] n = 12 -> slope % 2
           [] OTHER -> 0
    ELSE CASE n = 15 -> 1
           [] n = 13 -> type % 2
           [] n = 8 -> (type \div 2) % 2
           [] n = 14 -> source % 2
           [] n = 12 -> slope % 2
           [] OTHER -> 0

\* the 16-bit word of a trigger-type write
TriggerWord(e) == FramePayload(e.bytes)[1] + 256 * FramePayload(e.bytes)[2]

\* C8: the second write of configureEdgeTrigger goes to the shared trigger
\* register and carries, little-endian, the 16-bit word of the specified
\* layout, bit for bit: 0x0000 for SINGLE/EDGE/CH1/RISING and 0x1001 for
\* SINGLE/EDGE/EXTERNAL/FALLING.
C8_TriggerTypeWordLayout ==
  \A s \in Sessions :
    (op[s] = "configureEdgeTrigger" /\ Len(log[s]) >= 3) =>
      LET e == log[s][3]
          a == args[s]
      IN  /\ IsWriteTo(e, Address.TRIGGER)
          /\ Len(FramePayload(e.bytes)) = 2
          /\ \A n \in 0 .. 15 :
               Bit(TriggerWord(e), n) =
                 SpecifiedTriggerBit(n, a.mode, a.type, a.source, a.slope)
          /\ (a.mode = TriggerMode.SINGLE /\ a.type = TriggerType.EDGE
                /\ a.source = TriggerSource.CH1 /\ a.slope = TriggerSlope.RISING)
               => TriggerWord(e) = 0
          /\ (a.mode = TriggerMode.SINGLE /\ a.type = TriggerType.EDGE
                /\ a.source = TriggerSource.EXTERNAL /\ a.slope = TriggerSlope.FALLING)
               => TriggerWord(e) = 4097

\* C8 witness: the word of ALTERNATE/PULSE/CH2/FALLING was written and acknowledged
C8_Witness ==
  \E s \in Sessions :
    /\ op[s] = "configureEdgeTrigger"
    /\ pc[s] = "returned"
    /\ args[s].mode = TriggerMode.ALTERNATE
    /\ args[s].type = TriggerType.PULSE
    /\ args[s].source = TriggerSource.CH2
    /\ args[s].slope = TriggerSlope.FALLING
    /\ TriggerWord(log[s][3]) = 32768 + 16384 + 8192 + 4096 + 256

Sampling(s) == op[s] = "sampleInfinitely"

\* C9: in sampleInfinitely a refused acknowledgement is the last thing that
\* happens: the method fails, nothing is written and no callback is made after
\* it; when it is one of the eight acknowledgements of the arm sequence, no
\* callback was made at all.
C9_RefusalEndsSampling ==
  \A s \in Sessions :
    Sampling(s) =>
      \A k \in DOMAIN log[s] :
        IsRefusal(log[s][k]) =>
          /\ k = Len(log[s])
          /\ pc[s] = "threw"
          /\ k <= 2 * Len(ArmCommands) =>
               \A j \in DOMAIN log[s] : ~IsCallback(log[s][j])

\* C9 witness: a reset of the second cycle was refused after one callback
C9_Witness ==
  \E s \in Sessions :
    /\ Sampling(s)
    /\ pc[s] = "threw"
    /\ \E j \in DOMAIN log[s] : IsCallback(log[s][j])
    /\ IsRefusal(log[s][Len(log[s])])

\* C10: in every cycle of sampleInfinitely the write that follows the
\* acknowledged data-finished reset is the data request, register 0x1000 with
\* payload {0x05, 0x05}, and what follows it is the read of the 5211-byte
\* sample frame, whose status is not checked.
C10_DataRequestThenFrameRead ==
  \A s \in Sessions :
    Sampling(s) =>
      \A k \in DOMAIN log[s] :
        (IsWriteTo(log[s][k], Address.DATA_FINISHED) /\ k + 2 <= Len(log[s])
           /\ ~IsRefusal(log[s][k + 1])) =>
          /\ IsWriteTo(log[s][k + 2], Address.GET_DATA)
          /\ FramePayload(log[s][k + 2].bytes) = << 5, 5 >>
          /\ k + 3 <= Len(log[s]) =>
               /\ IsIn(log[s][k + 3])
               /\ log[s][k + 3].length = SAMPLE_FRAME_LENGTH
               /\ log[s][k + 3].expected = -1


IsFrameRead(e) == IsIn(e) /\ e.length = SAMPLE_FRAME_LENGTH

\* C11: in sampleInfinitely the callback is invoked exactly once per cycle:
\* directly after that cycle's frame read, with the frame that read returned,
\* and before the trigger-done reset of the next cycle; no callback is made
\* before the eight writes of the arm sequence were sent and acknowledged.
C11_CallbackOncePerCycle ==
  \A s \in Sessions :
    Sampling(s) =>
      \A k \in DOMAIN log[s] :
        /\ IsCallback(log[s][k]) =>
             /\ k > 2 * Len(ArmCommands) + 1
             /\ \A j \in 1 .. Len(ArmCommands) :
                  /\ IsOut(log[s][2 * j - 1])
                  /\ log[s][2 * j - 1].bytes = ArmCommands[j]
                  /\ IsIn(log[s][2 * j])
                  /\ ~IsRefusal(log[s][2 * j])
             /\ IsFrameRead(log[s][k - 1])
             /\ log[s][k].bytes = log[s][k - 1].bytes
             /\ k + 1 <= Len(log[s]) =>
                  IsWriteTo(log[s][k + 1], Address.TRIGGER_D)
        /\ IsFrameRead(log[s][k]) =>
             /\ k + 1 <= Len(log[s])
             /\ IsCallback(log[s][k + 1])
             /\ k + 2 <= Len(log[s]) => ~IsCallback(log[s][k + 2])

\* C11 witness: two cycles ran, their frames differ, and each callback got the
\* frame of its own cycle
C11_Witness ==
  \E s \in Sessions :
    /\ Sampling(s)
    /\ pc[s] = "returned"
    /\ \E j, k \in DOMAIN log[s] :
         /\ j < k
         /\ IsCallback(log[s][j])
         /\ IsCallback(log[s][k])
         /\ log[s][j].bytes # log[s][k].bytes
         /\ log[s][k - 1].bytes = log[s][k].bytes


\* C12: when the caller has asked sampleInfinitely to stop during a cycle, the
\* loop finishes that cycle and starts no further one: it is still in the
\* cycle of the request (or has failed in it), or it has completed exactly
\* that cycle and is at the loop header or has returned.
C12_StopRequestEndsLoopAfterCycle ==
  \A s \in Sessions :
    (Sampling(s) /\ loc[s].stopRequested) =>
      \/ loc[s].i = loc[s].stopCycle
      \/ /\ loc[s].i = loc[s].stopCycle + 1
         /\ pc[s] \in {"loop", "returned"}


\* close was called on session s after its last open: the session holds its
\* endpoints and the device is closed (one session uses the device)
Closed(s) == outEndpoint_[s] /\ ~opened

\* C13: once close was called the session stays closed for ever, and no
\* operation invoked afterwards writes to or reads from the transport.
C13_ClosedForEver ==
  [][\A s \in Sessions :
       Closed(s) => (Closed(s)' /\ log'[s] = << >>)]_vars


\* C14: when a step of connect fails after the transport was opened, the
\* transport is closed: connect has then settled and nothing of it runs any
\* more, so the transport must be closed when the rejection is observed.
C14_FailedConnectClosesTransport ==
  \A s \in Sessions :
    conn[s].state = "rejected" => ~opened


\* the lifecycle stage method o needs: 1 opened, 2 calibrated (flash read),
\* 3 firmware loaded, 4 configured; 0 for a method that needs none
RequiredStage(o) ==
  CASE o \in {"readFlash", "uploadFpgaBitstream"} -> 1
    [] o \in {"configurePhaseFine", "configureEdgeTrigger", "configureTimebase",
              "configureChannel"} -> 3
    [] o = "sampleInfinitely" -> 4
    [] OTHER -> 0

\* the highest stage session s can have reached, as far as its state tells:
\* none before open set the endpoints, opened at most while the flash was
\* never read (the stages are passed in order)
StageAtMost(s) ==
  IF ~outEndpoint_[s] THEN 0 ELSE IF ~flashLoaded[s] THEN 1 ELSE 4

\* C15: a method invoked before the lifecycle stage it needs was reached
\* fails and sends no command frame (nothing is written or read).
C15_EarlyOperationSendsNothing ==
  \A s \in Sessions :
    (op[s] \in Operations /\ RequiredStage(op[s]) > StageAtMost(s)) =>
      /\ log[s] = << >>
      /\ pc[s] # "returned"


\* the header and the version of a flash response, read off its first six
\* bytes: the header as a 16-bit value with the high byte first, the version
\* as a 32-bit little-endian value
ResponseHeader(e) == e.bytes[1] * 256 + e.bytes[2]
ResponseVersion(e) ==
  e.bytes[3] + 256 * e.bytes[4] + 65536 * e.bytes[5] + 16777216 * e.bytes[6]

\* C16: when the flash dump read by readFlash has a header other than 0xAA55
\* or a version other than 2, readFlash fails, with the header error when the
\* header is wrong (also when the version is wrong too) and with the version
\* error otherwise, and the session's calibration table, firmware version and
\* serial number are what they were before the read.
C16_InvalidFlashLeavesSessionUnchanged ==
  [][\A s \in Sessions :
       (op[s] = "readFlash" /\ pc[s] = "in" /\ Len(log'[s]) = 2) =>
         LET e == log'[s][2]
         IN  (ResponseHeader(e) # 43605 \/ ResponseVersion(e) # 2) =>
               /\ pc'[s] = "threw"
               /\ loc'[s].error = IF ResponseHeader(e) # 43605
                                    THEN "Expected flash header"
                                    ELSE "Expected flash version"
               /\ calibrationData_'[s] = calibrationData_[s]
               /\ firmwareVersion_'[s] = firmwareVersion_[s]
               /\ serialNumber_'[s] = serialNumber_[s]]_vars

\* C16 witness: on a session whose table an earlier readFlash had filled, a
\* dump with a wrong header and a wrong version was refused for its header
C16_Witness ==
  \E s \in Sessions :
    /\ op[s] = "readFlash"
    /\ pc[s] = "threw"
    /\ Len(log[s]) = 2
    /\ ResponseHeader(log[s][2]) # 43605
    /\ ResponseVersion(log[s][2]) # 2
    /\ loc[s].error = "Expected flash header"
    /\ flashLoaded[s]
    /\ calibrationData_[s] # EmptyCalibration


\* C17: for a payload of n <= 255 bytes packCommand returns a frame of 5 + n
\* bytes: the address in bytes 0..3, low byte first, n in byte 4 and the
\* payload unchanged from byte 5 on; for a payload of more than 255 bytes it
\* fails and produces no frame.
C17_FrameLayoutAndLengthLimit ==
  call.fn = "packCommand" =>
    LET n == Len(call.data)
    IN  IF n <= 255
          THEN /\ ~call.threw
               /\ Len(call.buffer) = 5 + n
               /\ LE32(call.buffer, 1) = call.address
               /\ call.buffer[5] = n
               /\ \A k \in 1 .. n : call.buffer[5 + k] = call.data[k]
          ELSE call.threw


\* C18: for a sample frame of any byte length gotData completes without an
\* error, its buffer has exactly the slots 0..1274, and a slot k that was
\* filled holds the signed 16-bit little-endian value at byte 111 + 4 * k of
\* the frame, scaled by 1/3096.
C18_DecodeAnyLength ==
  call.fn = "gotData" =>
    /\ ~call.threw
    /\ DOMAIN call.floatData = 0 .. 1274
    /\ \A k \in 0 .. 1274 :
         call.floatData[k] # << 0, 1 >> =>
           call.floatData[k] = << GetInt16LE(call.variant, 111 + 4 * k), 3096 >>


CallbackCount(s) == Cardinality({k \in DOMAIN log[s] : IsCallback(log[s][k])})

\* C19: sampleInfinitely is bounded: it never starts more cycles than the
\* fixed number (MaxCycles here, 5000 in the code), it returns only after
\* exactly that many cycles, and a connect that has reached sampling goes on
\* to a failure of sampling or to the close of the transport: with every
\* acknowledgement affirmative sampling does not run for ever and connect
\* then closes the transport.
C19_SamplingBoundedThenClosed ==
  /\ [](\A s \in Sessions :
          Sampling(s) =>
            /\ loc[s].i <= MaxCycles
            /\ CallbackCount(s) = loc[s].i
            /\ pc[s] = "returned" => loc[s].i = MaxCycles)
  /\ \A s \in Sessions :
       (Sampling(s) /\ conn[s].state = "running")
         ~> (pc[s] = "threw" \/ (conn[s].state = "resolved" /\ ~opened))

\* C19 witness: connect went through all its steps, sampling included, and
\* closed the transport
C19_Witness ==
  \E s \in Sessions :
    /\ conn[s].state = "resolved"
    /\ conn[s].k = Len(ConnectSequence)
    /\ ~opened


\* the register the i-th write of configureChannel goes to
ChannelRegister(i, channel) ==
  CASE i = 1 -> CHANNEL_ADDRESS(channel)
    [] i = 2 -> VOLT_GAIN_ADDRESS(channel)
    [] i = 3 -> ZERO_OFFSET_ADDRESS(channel)

\* C20: configureChannel writes the channel register, then the gain register,
\* then the offset register of its channel, and reads one response after each
\* write, which it compares with the affirmative status; a response that is
\* not affirmative is the last thing that happens: the method fails and none
\* of the later writes is sent; it returns only after all three pairs.
C20_ChannelGainOffsetInOrder ==
  \A s \in Sessions :
    op[s] = "configureChannel" =>
      /\ Len(log[s]) <= 6
      /\ \A k \in DOMAIN log[s] :
           /\ k % 2 = 1 =>
                IsWriteTo(log[s][k], ChannelRegister((k + 1) \div 2, args[s].channel))
           /\ k % 2 = 0 =>
                /\ IsIn(log[s][k])
                /\ log[s][k].expected = 83
           /\ IsRefusal(log[s][k]) => (k = Len(log[s]) /\ pc[s] = "threw")
      /\ pc[s] = "returned" => Len(log[s]) = 6

\* C20 witness: the response to the gain write was refused; the offset
\* register was never written
C20_Witness ==
  \E s \in Sessions :
    /\ op[s] = "configureChannel"
    /\ pc[s] = "threw"
    /\ Len(log[s]) = 4
    /\ IsRefusal(log[s][4])
    /\ IsWriteTo(log[s][3], VOLT_GAIN_ADDRESS(args[s].channel))


\* the methods of Owon that returned to the connect of session s
Completed(s) == {conn[s].completed[j] : j \in DOMAIN conn[s].completed}

ConfigurationMethods ==
  {"configureEdgeTrigger", "configureTimebase", "configureChannel", "turnOnChannel1"}

\* something of the running method of session s has reached the transport
HasWritten(s) == \E k \in DOMAIN log[s] : IsOut(log[s][k])

\* C21: in a run of connect the phase-fine write carries the value 0 and goes
\* out only after the firmware upload returned; a trigger, timebase or
\* channel configuration write goes out only after configurePhaseFine
\* returned (its write acknowledged) and after the upload returned; the arm
\* sequence starts only after all of these returned.
C21_PhaseFineBeforeConfiguration ==
  \A s \in Sessions :
    (conn[s].state = "running" /\ HasWritten(s)) =>
      /\ op[s] = "configurePhaseFine" =>
           /\ "uploadFpgaBitstream" \in Completed(s)
           /\ IsWriteTo(log[s][1], 24)
           /\ FramePayload(log[s][1].bytes) = << 0, 0 >>
           /\ Completed(s) \cap ConfigurationMethods = {}
      /\ op[s] \in ConfigurationMethods =>
           /\ "uploadFpgaBitstream" \in Completed(s)
           /\ "configurePhaseFine" \in Completed(s)
           /\ "sampleInfinitely" \notin Completed(s)
      /\ op[s] = "sampleInfinitely" =>
           /\ "uploadFpgaBitstream" \in Completed(s)
           /\ "configurePhaseFine" \in Completed(s)
           /\ ConfigurationMethods \subseteq Completed(s)

\* C21 witness: the arm sequence of a connect has started
C21_Witness ==
  \E s \in Sessions :
    /\ conn[s].state = "running"
    /\ op[s] = "sampleInfinitely"
    /\ HasWritten(s)
    /\ "configurePhaseFine" \in Completed(s)


\* the little-endian 16-bit value at byte offset o (0-based) of a response
ResponseUint16LE(e, o) == e.bytes[o + 1] + 256 * e.bytes[o + 2]

\* the two payload bytes of a write as a little-endian 16-bit value
PayloadUint16LE(e) == LE32(e.bytes \o << 0, 0 >>, 6) % 65536

\* C22: when readFlash has returned, the cell that calibrationData_.get
\* delivers for channel c, field f and range r is the little-endian 16-bit
\* value of the dump at byte offset 6 + 2 * (f * 20 + c * 10 + r); and the
\* cells configureChannel reads are those of its channel and voltage: the
\* gain it writes is cell (channel, GAIN, voltage).
C22_CalibrationCellLayout ==
  \A s \in Sessions :
    /\ (op[s] = "readFlash" /\ pc[s] = "returned") =>
         \A c \in 0 .. 1, f \in 0 .. 2, r \in 0 .. 9 :
           CalibrationGet(calibrationData_[s], c, f, r)
             = ResponseUint16LE(log[s][2], 6 + 2 * (f * 20 + c * 10 + r))
    /\ (op[s] = "configureChannel" /\ Len(log[s]) >= 3) =>
         PayloadUint16LE(log[s][3])
           = CalibrationGet(calibrationData_[s], args[s].channel, 0, args[s].voltage)

\* C22 witness: a dump was loaded whose cells differ from one another, and a
\* gain taken from it was written for channel 2 at range 9
C22_Witness ==
  \E s \in Sessions :
    /\ op[s] = "configureChannel"
    /\ flashLoaded[s]
    /\ args[s].channel = 1
    /\ args[s].voltage = 9
    /\ Len(log[s]) >= 3
    /\ PayloadUint16LE(log[s][3]) # 0
    /\ CalibrationGet(calibrationData_[s], 1, 0, 9)
         # CalibrationGet(calibrationData_[s], 0, 1, 9)


\* C23: once a successful readFlash has filled the calibration table of a
\* session, no step of any later operation of the session changes a cell.
C23_CalibrationReadOnlyOnceLoaded ==
  [][\A s \in Sessions :
       flashLoaded[s] => calibrationData_'[s] = calibrationData_[s]]_vars


\* C24: for calibration values compensation and amplitude in 0..65535 the
\* 16-bit value configureChannel puts into the offset write is
\* compensation - floor(amplitude / 100), not that difference plus 65536.
C24_ZeroOffsetNotWrapped ==
  call.fn = "zeroOffset" =>
    call.buffer[1] + 256 * call.buffer[2]
      = call.compensation - (call.amplitude \div 100)


\* C25: an upload whose frames are all acknowledged comes to an end for every
\* receive-buffer size and image length: whenever the loop returns to its
\* header after an acknowledged frame, its position i in the image has moved
\* forward. (The loop ends when i reaches the image length; the test, the
\* frame and the acknowledgement depend on i alone, so a pass that leaves i
\* where it was is repeated without end, one frame each time.)
C25_UploadLoopAdvances ==
  [][\A s \in Sessions :
       (Uploading(s) /\ pc[s] = "ack" /\ pc'[s] = "frame") =>
         loc'[s].i > loc[s].i]_vars

\* the arm writes of sampleInfinitely that went out (owon.ts:582-626)
ArmWrites(s) ==
  {k \in DOMAIN log[s] : k <= 2 * Len(ArmCommands) /\ IsOut(log[s][k])}

\* C26: the arm sequence of sampleInfinitely leaves the edge-level register
\* set by a preceding configureEdgeTrigger alone: whatever the configured
\* source (CH1, CH2, EXTERNAL), none of the eight arm writes goes to the
\* address that holds this source's edge level.
C26_ArmLeavesEdgeLevelRegister ==
  \A s \in Sessions :
    (Sampling(s) /\ edgeLevelSource[s] # -1) =>
      \A k \in ArmWrites(s) :
        ~IsWriteTo(log[s][k], TRIGGER_EDGE_LEVEL_ADDRESS(edgeLevelSource[s]))

=========================================================================
